---------------------------- MODULE Spec2Model ----------------------------
(***************************************************************************)
(* State-machine model of the RSS bucket shuffle repartitioner             *)
(* (native-engine/datafusion-ext-plans/src/shuffle/                        *)
(* rss_bucket_repartitioner.rs).                                           *)
(*                                                                         *)
(* A record batch has one column; a row is the value of that column.  Row  *)
(* positions are 0-based as in the source, so position i of a batch is     *)
(* element i+1 of the sequence that models its column.                     *)
(*                                                                         *)
(* Two execution contexts act on the repartitioner: the task pipeline      *)
(* ("task": insert_batch, the spill it runs on itself from inside          *)
(* try_grow, shuffle_write, drop) and the memory manager ("arbiter": an    *)
(* asynchronous spill).  Every `.await` of the source is a step boundary;  *)
(* the code between two awaits is one step.                                *)
(***************************************************************************)
EXTENDS Integers, Sequences, FiniteSets

\* ------------------------------------------------------------------ bounds
MaxPartitions == 2
MaxBatchSize == 6
MaxRows == 2
MaxHash == 2
MaxBatches == 2
MaxNominalBatchSize == 40

VARIABLES
    num_output_partitions,  \* RssBucketShuffleRepartitioner.num_output_partitions
    batch_size,             \* context.session_config().batch_size()
    buffered_partitions,    \* the Vec<PartitionBuffer> behind the Mutex
    lock,                   \* holder of the futures Mutex: "none", "task", "arbiter"
    mem_used,               \* metrics.mem_used()
    registered,             \* the consumer is registered with the memory manager
    released,               \* bytes handed back by runtime.drop_consumer
    rss,                    \* every write handed to the rss partition writer, in order
    task_pc,                \* position of the task pipeline
    input,                  \* the batch of the insert_batch call in progress
    cursor,                 \* dispatch loop: first partition id not yet dispatched
    spill_pc,               \* position of each context's spill() call
    inserted,               \* history: the batches insert_batch was called with
    last                    \* history: the step just taken and its result

vars == <<num_output_partitions, batch_size, buffered_partitions, lock, mem_used,
          registered, released, rss, task_pc, input, cursor, spill_pc, inserted,
          last>>

\* ------------------------------------------------------------ input domain
Values == 0..MaxHash

Batches == UNION {[1..n -> Values] : n \in 0..MaxRows}

Contexts == {"task", "arbiter"}

\* -------------------------------------------------------- helper operators
Min(a, b) == IF a < b THEN a ELSE b

RECURSIVE Log2Floor(_)
Log2Floor(x) == IF x < 2 THEN 0 ELSE 1 + Log2Floor(x \div 2)

RECURSIVE SumTo(_, _)
SumTo(f, p) == IF p < 0 THEN 0 ELSE f[p] + SumTo(f, p - 1)

\* --------------------------------------------------------- PartitionBuffer
\* The threshold with the logarithm rounded up before the division.
RssBatchSize_log_rounded_up(b) == b \div (Log2Floor(b + 1) + 1)

\* `batch_size / (batch_size as f64 + 1.0).log2() as usize`: the cast binds
\* tighter than the division, so the logarithm is truncated first.
RssBatchSize(b) == b \div Log2Floor(b + 1)

PartitionBuffer_new(b) ==
    [active |-> <<>>, num_active_rows |-> 0, rss_batch_size |-> RssBatchSize(b)]

\* new_array_builders: one empty builder per column of the schema.
new_array_builders == << <<>> >>

\* builder_extend, for every (builder, column) pair: appends the rows of
\* `column` at the given positions.
builder_extend(active, column, idxs) ==
    [c \in DOMAIN active |->
        active[c] \o [j \in 1..Len(idxs) |-> column[idxs[j] + 1]]]

\* make_batch: the batch finished from the builders.
make_batch(active) == IF active = <<>> THEN <<>> ELSE active[1]

\* The sink context `k` threads the writes of one step: k.out are the write
\* attempts so far, k.fail the number of the attempt that fails (0: none).
write_batch_to_rss(k, partition_id, batch, via) ==
    LET ok == Len(k.out) + 1 # k.fail
    IN  [k  |-> [k EXCEPT !.out = Append(@, [partition_id |-> partition_id,
                                              batch |-> batch,
                                              ok |-> ok,
                                              via |-> via])],
         ok |-> ok]

\* Mutant: an empty buffer is written as well.
flush_to_rss_writes_empty(buf, partition_id, k) ==
    LET w == write_batch_to_rss(k, partition_id, make_batch(buf.active),
                                "flush_to_rss")
    IN  [buf |-> [buf EXCEPT !.active = <<>>, !.num_active_rows = 0],
         k   |-> w.k,
         ok  |-> w.ok]

\* Mutant: the builders are not taken out of the buffer.
flush_to_rss_keeps_active(buf, partition_id, k) ==
    IF buf.num_active_rows = 0
    THEN [buf |-> buf, k |-> k, ok |-> TRUE]
    ELSE LET w == write_batch_to_rss(k, partition_id, make_batch(buf.active),
                                     "flush_to_rss")
         IN  [buf |-> [buf EXCEPT !.num_active_rows = 0], k |-> w.k, ok |-> w.ok]

\* The buffer reset only once the write has succeeded.
flush_to_rss_resets_on_success(buf, partition_id, k) ==
    IF buf.num_active_rows = 0
    THEN [buf |-> buf, k |-> k, ok |-> TRUE]
    ELSE LET w == write_batch_to_rss(k, partition_id, make_batch(buf.active),
                                     "flush_to_rss")
         IN  [buf |-> IF w.ok
                      THEN [buf EXCEPT !.active = <<>>, !.num_active_rows = 0]
                      ELSE buf,
              k   |-> w.k,
              ok  |-> w.ok]

flush_to_rss(buf, partition_id, k) ==
    IF buf.num_active_rows = 0
    THEN [buf |-> buf, k |-> k, ok |-> TRUE]
    ELSE LET active == buf.active
             batch  == make_batch(active)
             w      == write_batch_to_rss(k, partition_id, batch, "flush_to_rss")
         IN  [buf |-> [buf EXCEPT !.active = <<>>, !.num_active_rows = 0],
              k   |-> w.k,
              ok  |-> w.ok]

RECURSIVE append_rows_loop(_, _, _, _, _, _)
append_rows_loop(buf, column, indices, partition_id, start, k) ==
    IF ~(start < Len(indices))
    THEN [buf |-> buf, k |-> k, ok |-> TRUE]
    ELSE LET act0   == IF buf.active = <<>> THEN new_array_builders ELSE buf.active
             room   == IF buf.rss_batch_size > buf.num_active_rows
                       THEN buf.rss_batch_size - buf.num_active_rows ELSE 0
             extend_len == Min(Len(indices) - start, room)
             act1   == builder_extend(act0, column,
                                      SubSeq(indices, start + 1, start + extend_len))
             buf1   == [buf EXCEPT !.active = act1,
                                   !.num_active_rows = @ + extend_len]
             f      == IF buf1.num_active_rows >= buf1.rss_batch_size
                       THEN flush_to_rss(buf1, partition_id, k)
                       ELSE [buf |-> buf1, k |-> k, ok |-> TRUE]
         IN  IF ~f.ok
             THEN f
             ELSE append_rows_loop(f.buf, column, indices, partition_id,
                                   start + extend_len, f.k)

\* Mutant: the rows are appended without the threshold check.
append_rows_no_flush(buf, column, indices, partition_id, k) ==
    LET act0 == IF buf.active = <<>> THEN new_array_builders ELSE buf.active
    IN  [buf |-> [buf EXCEPT !.active = builder_extend(act0, column, indices),
                             !.num_active_rows = @ + Len(indices)],
         k   |-> k,
         ok  |-> TRUE]

append_rows(buf, column, indices, partition_id, k) ==
    append_rows_loop(buf, column, indices, partition_id, 0, k)

\* The bulk path flushing the buffered rows first, to keep the order of
\* insertion.
append_batch_flushes_first(buf, batch, partition_id, k) ==
    LET f == flush_to_rss(buf, partition_id, k)
        w == write_batch_to_rss(f.k, partition_id, batch, "append_batch")
    IN  IF f.ok THEN [buf |-> f.buf, k |-> w.k, ok |-> w.ok] ELSE f

append_batch(buf, batch, partition_id, k) ==
    LET w == write_batch_to_rss(k, partition_id, batch, "append_batch")
    IN  [buf |-> buf, k |-> w.k, ok |-> w.ok]

\* ------------------------------------------------- insert_batch: grouping
\* input.get_array_memory_size(): the bytes of the rows plus the fixed
\* footprint of the array itself (one unit per row, one for the array).
get_array_memory_size(batch) == Len(batch) + 1

evaluate_hashes(batch) == [i \in 1..Len(batch) |-> batch[i]]

evaluate_partition_ids(hashes, n) == [i \in 1..Len(hashes) |-> hashes[i] % n]

partition_counters(partition_ids, n) ==
    [p \in 0..(n - 1) |-> Cardinality({i \in DOMAIN partition_ids : partition_ids[i] = p})]

\* The counters taken as they are, without the running sum.
partition_ends_no_running_sum(counters, n) == [p \in 0..(n - 1) |-> counters[p]]

partition_ends(counters, n) == [p \in 0..(n - 1) |-> SumTo(counters, p)]

\* The reverse pass over the rows: `k` rows are still to be placed.
RECURSIVE shuffle_loop(_, _, _, _)
shuffle_loop(partition_ids, k, ends, shuffled) ==
    IF k = 0
    THEN [ends |-> ends, shuffled |-> shuffled]
    ELSE LET index == k - 1
             pid   == partition_ids[k]
             end   == ends[pid] - 1
         IN  shuffle_loop(partition_ids, k - 1,
                          [ends EXCEPT ![pid] = end],
                          [shuffled EXCEPT ![end] = index])

\* [starts, shuffled]: partition_starts (with the pushed num_rows) and
\* shuffled_partition_ids of a batch.
Grouping(batch, n) ==
    LET pids == evaluate_partition_ids(evaluate_hashes(batch), n)
        ends == partition_ends(partition_counters(pids, n), n)
        r    == shuffle_loop(pids, Len(batch), ends,
                             [j \in 0..(Len(batch) - 1) |-> 0])
    IN  [starts   |-> [p \in 0..n |-> IF p = n THEN Len(batch) ELSE r.ends[p]],
         shuffled |-> r.shuffled]

\* &shuffled_partition_ids[start..end] of partition p.
RunIndices(g, p) ==
    [j \in 1..(g.starts[p + 1] - g.starts[p]) |-> g.shuffled[g.starts[p] + j - 1]]

\* The first partition id >= from whose run is non-empty (the filter of the
\* dispatch loop); n when there is none.
RECURSIVE NextRun(_, _, _)
NextRun(g, from, n) ==
    IF from >= n THEN n
    ELSE IF g.starts[from] < g.starts[from + 1] THEN from
    ELSE NextRun(g, from + 1, n)

arrow_take(column, indices) == [j \in 1..Len(indices) |-> column[indices[j] + 1]]

\* Mutant: every run is written through the bulk path.
Dispatch_always_bulk(buf, batch, g, p, k) ==
    append_batch(buf, arrow_take(batch, RunIndices(g, p)), p, k)

\* Mutant: a run as long as the threshold is still appended row-wise.
Dispatch_cutover_above(buf, batch, g, p, k) ==
    LET indices == RunIndices(g, p)
    IN  IF Len(indices) <= buf.rss_batch_size
        THEN append_rows(buf, batch, indices, p, k)
        ELSE append_batch(buf, arrow_take(batch, indices), p, k)

\* Mutant: no cutover, every run is appended row-wise.
Dispatch_always_rows(buf, batch, g, p, k) ==
    append_rows(buf, batch, RunIndices(g, p), p, k)

\* One iteration of the dispatch loop, between lock() and drop(guard).
Dispatch(buf, batch, g, p, k) ==
    LET indices == RunIndices(g, p)
    IN  IF Len(indices) < buf.rss_batch_size
        THEN append_rows(buf, batch, indices, p, k)
        ELSE append_batch(buf, arrow_take(batch, indices), p, k)

\* ------------------------------------------- flushing every buffer in order
\* `for i in 0..num_output_partitions { buffered_partitions[i].flush_to_rss(i)?; }`
\* Mutant: a failed flush does not end the loop; the failure is returned
\* after the last buffer.
RECURSIVE flush_all_goes_on(_, _, _, _)
flush_all_goes_on(bufs, i, n, k) ==
    IF i >= n
    THEN [bufs |-> bufs, k |-> k, ok |-> \A j \in DOMAIN k.out : k.out[j].ok]
    ELSE LET f == flush_to_rss(bufs[i], i, k)
         IN  flush_all_goes_on([bufs EXCEPT ![i] = f.buf], i + 1, n, f.k)

RECURSIVE flush_all(_, _, _, _)
flush_all(bufs, i, n, k) ==
    IF i >= n
    THEN [bufs |-> bufs, k |-> k, ok |-> TRUE]
    ELSE LET f == flush_to_rss(bufs[i], i, k)
             b == [bufs EXCEPT ![i] = f.buf]
         IN  IF ~f.ok THEN [bufs |-> b, k |-> f.k, ok |-> FALSE]
             ELSE flush_all(b, i + 1, n, f.k)

\* Mutant: a successful spill leaves mem_used as it was.
spill_keeps_mem_used(bufs, n, mem, k) ==
    LET r == flush_all(bufs, 0, n, k)
    IN  [bufs |-> r.bufs, k |-> r.k, ok |-> r.ok, mem_used |-> mem]

\* spill setting the usage to 0 whatever the flushes returned.
spill_zeroes_on_failure(bufs, n, mem, k) ==
    IF n = 0
    THEN [bufs |-> bufs, k |-> k, ok |-> TRUE, mem_used |-> mem]
    ELSE LET r == flush_all(bufs, 0, n, k)
         IN  [bufs |-> r.bufs, k |-> r.k, ok |-> r.ok, mem_used |-> 0]

\* The body of spill(): Ok(0) without a buffer; otherwise every buffer is
\* flushed in order and, when no flush fails, mem_used is set to 0.
spill(bufs, n, mem, k) ==
    IF Cardinality(DOMAIN bufs) = 0
    THEN [bufs |-> bufs, k |-> k, ok |-> TRUE, mem_used |-> mem]
    ELSE LET r == flush_all(bufs, 0, n, k)
         IN  [bufs |-> r.bufs, k |-> r.k, ok |-> r.ok,
              mem_used |-> IF r.ok THEN 0 ELSE mem]

\* shuffle_write under the lock.
shuffle_write(bufs, n, k) == flush_all(bufs, 0, n, k)

NoWrites(fail) == [out |-> <<>>, fail |-> fail]

\* The attempt that fails is one the step makes.
FailChoices == 0..(MaxRows + MaxPartitions)
Feasible(r, fail) == fail = 0 \/ ~r.ok

\* The step just taken: the operation, its result, the sink writes it made.
Event(op, ok, writes) == [op |-> op, ok |-> ok, writes |-> writes]

\* -------------------------------------------------------------------- Init
\* RssBucketShuffleRepartitioner::new with n output partitions and session
\* batch size b.
InitState(n, b) ==
    /\ num_output_partitions = n
    /\ batch_size = b
    /\ buffered_partitions =
           [p \in 0..(num_output_partitions - 1) |-> PartitionBuffer_new(batch_size)]
    /\ lock = "none"
    /\ mem_used = 0
    /\ registered = TRUE
    /\ released = 0
    /\ rss = <<>>
    /\ task_pc = "idle"
    /\ input = <<>>
    /\ cursor = 0
    /\ spill_pc = [c \in Contexts |-> "idle"]
    /\ inserted = <<>>
    /\ last = Event("new", TRUE, 0)

Init == \E n \in 1..MaxPartitions, b \in 1..MaxBatchSize : InitState(n, b)

\* ------------------------------------------------------------ insert_batch
\* insert_batch taking the buffer lock on entry and keeping it over the
\* call to the memory manager.
InsertBegin_holding_lock(batch) ==
    /\ task_pc = "idle"
    /\ Len(inserted) < MaxBatches
    /\ lock = "none"
    /\ lock' = "task"
    /\ mem_used' = mem_used + get_array_memory_size(batch)
    /\ input' = batch
    /\ inserted' = Append(inserted, batch)
    /\ task_pc' = "try_grow"
    /\ last' = Event("insert_begin", TRUE, 0)
    /\ UNCHANGED <<released, num_output_partitions, batch_size, buffered_partitions,
                   registered, rss, cursor, spill_pc>>

\* Lines 94-97 up to the await of try_grow.
InsertBegin(batch) ==
    /\ task_pc = "idle"
    /\ Len(inserted) < MaxBatches
    /\ mem_used' = mem_used + get_array_memory_size(batch)
    /\ input' = batch
    /\ inserted' = Append(inserted, batch)
    /\ task_pc' = "try_grow"
    /\ last' = Event("insert_begin", TRUE, 0)
    /\ UNCHANGED <<released, num_output_partitions, batch_size, buffered_partitions, lock,
                   registered, rss, cursor, spill_pc>>

\* try_grow returns Ok: the grouping is computed and the dispatch loop is
\* entered; a batch without rows has no run and insert_batch returns.  With
\* no output partition the bucket id of a row is a remainder by zero, which
\* panics and fails the task.
TryGrowOk ==
    /\ task_pc \in {"try_grow", "grown"}
    /\ IF num_output_partitions = 0 /\ Len(input) > 0
       THEN /\ cursor' = 0
            /\ task_pc' = "failed"
            /\ input' = <<>>
            /\ last' = Event("evaluate_partition_ids", FALSE, 0)
       ELSE LET g == Grouping(input, num_output_partitions)
                p == NextRun(g, 0, num_output_partitions)
            IN  /\ cursor' = IF p < num_output_partitions THEN p ELSE 0
                /\ task_pc' = IF p < num_output_partitions THEN "dispatch" ELSE "idle"
                /\ input' = IF p < num_output_partitions THEN input ELSE <<>>
                /\ last' = Event("try_grow", TRUE, 0)
    /\ UNCHANGED <<released, num_output_partitions, batch_size, buffered_partitions, lock,
                   mem_used, registered, rss, spill_pc, inserted>>

\* The same with the `?` left out: the error is dropped and the dispatch
\* loop is entered all the same.
TryGrowFail_error_ignored ==
    /\ task_pc \in {"try_grow", "grown"}
    /\ LET g == Grouping(input, num_output_partitions)
           p == NextRun(g, 0, num_output_partitions)
       IN  /\ cursor' = IF p < num_output_partitions THEN p ELSE 0
           /\ task_pc' = IF p < num_output_partitions THEN "dispatch" ELSE "idle"
           /\ input' = IF p < num_output_partitions THEN input ELSE <<>>
    /\ last' = Event("try_grow", FALSE, 0)
    /\ UNCHANGED <<released, num_output_partitions, batch_size, buffered_partitions, lock,
                   mem_used, registered, rss, spill_pc, inserted>>

\* try_grow returns Err (the memory manager cannot satisfy the request).
TryGrowFail ==
    /\ task_pc \in {"try_grow", "grown"}
    /\ task_pc' = "failed"
    /\ input' = <<>>
    /\ last' = Event("try_grow", FALSE, 0)
    /\ UNCHANGED <<released, num_output_partitions, batch_size, buffered_partitions, lock,
                   mem_used, registered, rss, cursor, spill_pc, inserted>>

\* try_grow asks this consumer to spill itself.
TryGrowSpill ==
    /\ task_pc = "try_grow"
    /\ spill_pc["task"] = "idle"
    /\ task_pc' = "in_spill"
    /\ spill_pc' = [spill_pc EXCEPT !["task"] = "wait"]
    /\ last' = Event("spill_call", TRUE, 0)
    /\ UNCHANGED <<released, num_output_partitions, batch_size, buffered_partitions, lock,
                   mem_used, registered, rss, input, cursor, inserted>>

\* `self.buffered_partitions.lock().await` of the dispatch loop.
DispatchLock ==
    /\ task_pc = "dispatch"
    /\ lock = "none"
    /\ lock' = "task"
    /\ task_pc' = "append"
    /\ last' = Event("dispatch_lock", TRUE, 0)
    /\ UNCHANGED <<released, num_output_partitions, batch_size, buffered_partitions, mem_used,
                   registered, rss, input, cursor, spill_pc, inserted>>

\* The body of one iteration; the guard is dropped on success and on `?`.
DispatchAppend ==
    /\ task_pc = "append"
    /\ \E fail \in FailChoices :
          LET g == Grouping(input, num_output_partitions)
              r == Dispatch(buffered_partitions[cursor], input, g, cursor,
                            NoWrites(fail))
              p == NextRun(g, cursor + 1, num_output_partitions)
              more == r.ok /\ p < num_output_partitions
          IN  /\ Feasible(r, fail)
              /\ buffered_partitions' = [buffered_partitions EXCEPT ![cursor] = r.buf]
              /\ rss' = rss \o r.k.out
              /\ task_pc' = IF ~r.ok THEN "failed"
                            ELSE IF more THEN "dispatch" ELSE "idle"
              /\ cursor' = IF more THEN p ELSE 0
              /\ input' = IF more THEN input ELSE <<>>
              /\ last' = Event("dispatch", r.ok, Len(r.k.out))
    /\ lock' = "none"
    /\ UNCHANGED <<released, num_output_partitions, batch_size, mem_used, registered,
                   spill_pc, inserted>>

\* ----------------------------------------------------------- shuffle_write
ShuffleWriteLock ==
    /\ task_pc = "idle"
    /\ lock = "none"
    /\ lock' = "task"
    /\ task_pc' = "shuffle_write"
    /\ last' = Event("shuffle_write_lock", TRUE, 0)
    /\ UNCHANGED <<released, num_output_partitions, batch_size, buffered_partitions, mem_used,
                   registered, rss, input, cursor, spill_pc, inserted>>

ShuffleWrite ==
    /\ task_pc = "shuffle_write"
    /\ \E fail \in FailChoices :
          LET r == shuffle_write(buffered_partitions, num_output_partitions,
                                 NoWrites(fail))
          IN  /\ Feasible(r, fail)
              /\ buffered_partitions' = r.bufs
              /\ rss' = rss \o r.k.out
              /\ task_pc' = IF r.ok THEN "done" ELSE "failed"
              /\ last' = Event("shuffle_write", r.ok, Len(r.k.out))
    /\ lock' = "none"
    /\ UNCHANGED <<released, num_output_partitions, batch_size, mem_used, registered, input,
                   cursor, spill_pc, inserted>>

\* ------------------------------------------------------------------- spill
\* A spill that goes on without waiting for the lock to be free.
SpillLock_no_wait(c) ==
    /\ IF c = "arbiter" THEN registered /\ spill_pc[c] = "idle"
                        ELSE spill_pc[c] = "wait"
    /\ lock' = c
    /\ spill_pc' = [spill_pc EXCEPT ![c] = "locked"]
    /\ last' = Event("spill_lock", TRUE, 0)
    /\ UNCHANGED <<released, num_output_partitions, batch_size, buffered_partitions, mem_used,
                   registered, rss, task_pc, input, cursor, inserted>>

\* `self.buffered_partitions.lock().await` of spill().  The memory manager
\* calls spill() on its own context at any time while the consumer is
\* registered; the task's call waits since TryGrowSpill.
SpillLock(c) ==
    /\ IF c = "arbiter" THEN registered /\ spill_pc[c] = "idle"
                        ELSE spill_pc[c] = "wait"
    /\ lock = "none"
    /\ lock' = c
    /\ spill_pc' = [spill_pc EXCEPT ![c] = "locked"]
    /\ last' = Event("spill_lock", TRUE, 0)
    /\ UNCHANGED <<released, num_output_partitions, batch_size, buffered_partitions, mem_used,
                   registered, rss, task_pc, input, cursor, inserted>>

\* The body of spill() under the lock.  The Err of a spill the task runs on
\* itself is the Err of its try_grow, and of its insert_batch.
Spill(c) ==
    /\ spill_pc[c] = "locked"
    /\ \E fail \in FailChoices :
          LET r == spill(buffered_partitions, num_output_partitions, mem_used,
                         NoWrites(fail))
          IN  /\ Feasible(r, fail)
              /\ buffered_partitions' = r.bufs
              /\ rss' = rss \o r.k.out
              /\ mem_used' = r.mem_used
              /\ task_pc' = IF c = "task"
                            THEN (IF r.ok THEN "grown" ELSE "failed")
                            ELSE task_pc
              /\ input' = IF c = "task" /\ ~r.ok THEN <<>> ELSE input
              /\ last' = Event("spill", r.ok, Len(r.k.out))
    /\ lock' = "none"
    /\ spill_pc' = [spill_pc EXCEPT ![c] = "idle"]
    /\ UNCHANGED <<released, num_output_partitions, batch_size, registered, cursor, inserted>>

\* -------------------------------------------------------------------- drop
\* Teardown written as a last statement of the success path instead of a
\* Drop implementation: a failed task never deregisters.
Drop_only_on_success ==
    /\ task_pc \in {"idle", "done"}
    /\ spill_pc["arbiter"] = "idle"
    /\ registered
    /\ registered' = FALSE
    /\ released' = released + mem_used
    /\ task_pc' = "dropped"
    /\ last' = Event("drop", TRUE, 0)
    /\ UNCHANGED <<num_output_partitions, batch_size, buffered_partitions, lock,
                   mem_used, rss, input, cursor, spill_pc, inserted>>

\* The task ends (after shuffle_write, after a failure, or cancelled between
\* two operations) and the repartitioner is dropped:
\* `self.runtime.drop_consumer(self.id(), self.mem_used())`.
Drop ==
    /\ task_pc \in {"idle", "done", "failed"}
    /\ spill_pc["arbiter"] = "idle"
    /\ registered
    /\ registered' = FALSE
    /\ released' = released + mem_used
    /\ task_pc' = "dropped"
    /\ last' = Event("drop", TRUE, 0)
    /\ UNCHANGED <<num_output_partitions, batch_size, buffered_partitions, lock,
                   mem_used, rss, input, cursor, spill_pc, inserted>>

\* -------------------------------------------------------------------- Next
Next ==
    \/ \E batch \in Batches : InsertBegin(batch)
    \/ TryGrowOk
    \/ TryGrowFail
    \/ TryGrowSpill
    \/ DispatchLock
    \/ DispatchAppend
    \/ ShuffleWriteLock
    \/ ShuffleWrite
    \/ \E c \in Contexts : SpillLock(c)
    \/ \E c \in Contexts : Spill(c)
    \/ Drop

Spec == Init /\ [][Next]_vars

\* --------------------------------------------------- sequential scenarios
\* One insert_batch followed by shuffle_write, with no spill and a memory
\* manager that grants every request: 4 or 1 output partitions, session
\* batch size 12 (flush threshold 12 / 3 = 4), and as input a batch of ten
\* rows that all hash to bucket 0, a batch of eight rows whose bucket ids are
\* 0,1,2,3,0,1,2,3, or any batch of Batches.
TenRowBatches == [1..10 -> {0, 4}]

RoundRobinBatches ==
    {[i \in 1..8 |-> ((i - 1) % 4) + 4 * c[i]] : c \in [1..8 -> {0, 1}]}

ScenarioBatches == TenRowBatches \cup RoundRobinBatches \cup Batches

InitScenario == \E n \in {1, 4} : InitState(n, 12)

InsertOnce == inserted = <<>> /\ \E batch \in ScenarioBatches : InsertBegin(batch)

NextScenario ==
    \/ InsertOnce
    \/ TryGrowOk
    \/ DispatchLock
    \/ DispatchAppend
    \/ ShuffleWriteLock
    \/ ShuffleWrite
    \/ Drop

SpecScenario == InitScenario /\ [][NextScenario]_vars

\* ------------------------------------------------- nominal batch size sweep
\* One partition, one insert and the shuffle_write, for every nominal batch
\* size up to MaxNominalBatchSize.
InitThreshold == \E b \in 1..MaxNominalBatchSize : InitState(1, b)

InsertSmallOnce == inserted = <<>> /\ \E batch \in Batches : InsertBegin(batch)

NextThreshold ==
    \/ InsertSmallOnce
    \/ TryGrowOk
    \/ DispatchLock
    \/ DispatchAppend
    \/ ShuffleWriteLock
    \/ ShuffleWrite
    \/ Drop

SpecThreshold == InitThreshold /\ [][NextThreshold]_vars

\* ------------------------------------------- any requested partition count
\* `new` takes partitioning.partition_count() as it is, zero included.
InitAnyPartitionCount ==
    \E n \in 0..MaxPartitions, b \in 1..MaxBatchSize : InitState(n, b)

SpecAnyPartitionCount == InitAnyPartitionCount /\ [][Next]_vars

\* ------------------------------------------------- vocabulary of the claims
Range(s) == {s[i] : i \in DOMAIN s}

Count(s, v) == Cardinality({i \in DOMAIN s : s[i] = v})

\* The same rows with the same multiplicities, in any order.
SameRows(a, b) ==
    /\ Len(a) = Len(b)
    /\ \A v \in Range(a) \cup Range(b) : Count(a, v) = Count(b, v)

RECURSIVE Concat(_)
Concat(ss) == IF ss = <<>> THEN <<>> ELSE Head(ss) \o Concat(Tail(ss))

IsOk(w) == w.ok

RowsOfWrites(ws) == Concat([i \in 1..Len(ws) |-> ws[i].batch])

\* The rows the sink received.
DeliveredRows == RowsOfWrites(SelectSeq(rss, IsOk))

InsertedRows == Concat(inserted)

AllWritesOk == \A i \in DOMAIN rss : rss[i].ok

Partitions == 0..(num_output_partitions - 1)

\* The rows of a batch whose bucket id is p, in batch order.
RowsOfBucket(batch, p) ==
    LET InP(v) == v % num_output_partitions = p IN SelectSeq(batch, InP)

WritesVia(ws, via) == Cardinality({i \in DOMAIN ws : ws[i].via = via})

\* ---------------------------------------------------------------------- C1
\* C1: when shuffle_write has returned Ok after any sequence of insert_batch
\* calls, and no write of an interleaved spill failed, the rows the sink
\* received over all bucket ids are exactly the rows inserted, with the same
\* multiplicities: no row is lost and none is written twice.
C1_NoLossNoDuplication ==
    (task_pc = "done" /\ AllWritesOk) => SameRows(DeliveredRows, InsertedRows)

C1_Witness ==
    /\ task_pc = "done"
    /\ AllWritesOk
    /\ Len(inserted) = 2
    /\ Len(InsertedRows) >= 3
    /\ WritesVia(rss, "append_batch") >= 1
    /\ WritesVia(rss, "flush_to_rss") >= 2

\* ---------------------------------------------------------------------- C2
\* The scenario of C2: the flush threshold is 4 and the one insert_batch call
\* was given ten rows that all map to bucket 0.
C2_Scenario ==
    /\ \A p \in Partitions : buffered_partitions[p].rss_batch_size = 4
    /\ Len(inserted) = 1
    /\ Len(inserted[1]) = 10
    /\ \A i \in 1..10 : inserted[1][i] % num_output_partitions = 0

C2_InsertReturned == C2_Scenario /\ task_pc = "idle" /\ last.op = "dispatch"

C2_Finalized == C2_Scenario /\ task_pc = "done"

\* C2 as claimed: the insert flushes bucket 0's buffer at least twice and
\* leaves exactly 2 rows buffered; shuffle_write then makes exactly one more
\* sink write, carrying those 2 rows.
C2_AsClaimed ==
    /\ C2_InsertReturned =>
          /\ WritesVia(rss, "flush_to_rss") >= 2
          /\ buffered_partitions[0].num_active_rows = 2
    /\ C2_Finalized =>
          /\ last.writes = 1
          /\ Len(rss[Len(rss)].batch) = 2

\* C2 (amended): with flush threshold 4, a single insert of 10 rows that all
\* map to bucket 0 takes the bulk path: the insert makes exactly one sink
\* write, by append_batch, keyed 0 and carrying all 10 rows, makes no flush
\* and leaves bucket 0's buffer empty; the following shuffle_write makes no
\* sink write.
C2_BulkWriteOnly ==
    /\ (C2_InsertReturned \/ C2_Finalized) =>
          /\ Len(rss) = 1
          /\ rss[1].via = "append_batch"
          /\ rss[1].partition_id = 0
          /\ SameRows(rss[1].batch, inserted[1])
          /\ buffered_partitions[0].num_active_rows = 0
          /\ buffered_partitions[0].active = <<>>
    /\ C2_Finalized => last.writes = 0

C2_Witness == C2_Finalized /\ last = Event("shuffle_write", TRUE, 0) /\ Len(rss) = 1

\* ---------------------------------------------------------------------- C3
\* C3: whenever the buffer lock is not held, every partition buffer holds
\* fewer rows than its flush threshold.
C3_BelowThresholdAtRest ==
    lock = "none" =>
        \A p \in Partitions :
            buffered_partitions[p].num_active_rows < buffered_partitions[p].rss_batch_size

\* append_rows has just flushed bucket p at the threshold and gone on to
\* buffer the rest of the run.
C3_Witness ==
    /\ lock = "none"
    /\ last = Event("dispatch", TRUE, 1)
    /\ rss[Len(rss)].via = "flush_to_rss"
    /\ buffered_partitions[rss[Len(rss)].partition_id].num_active_rows > 0

\* ---------------------------------------------------------------------- C4
\* No operation is in progress on either context.
AtRest ==
    /\ task_pc \in {"idle", "done"}
    /\ lock = "none"
    /\ \A c \in Contexts : spill_pc[c] = "idle"

AllBuffersEmpty == \A p \in Partitions : buffered_partitions[p].num_active_rows = 0

\* C4: between operations, when every partition buffer is empty because all
\* the rows of the earlier inserts have been handed to the sink, the
\* accounted memory usage is 0.
C4_UsageOnlyOfBufferedData ==
    (AtRest /\ AllBuffersEmpty /\ AllWritesOk /\ InsertedRows # <<>>) => mem_used = 0

\* ---------------------------------------------------------------------- C5
\* C5: the accounted memory usage is never negative, and with at least one
\* output partition it is exactly 0 in the state a successful spill leaves.
C5_UsageZeroAfterSpill ==
    /\ mem_used >= 0
    /\ (num_output_partitions >= 1 /\ last.op = "spill" /\ last.ok) => mem_used = 0

\* A spill that flushed rows, between two per-bucket dispatches of an insert.
C5_Witness ==
    /\ last.op = "spill"
    /\ last.ok
    /\ last.writes >= 1
    /\ task_pc = "dispatch"
    /\ mem_used = 0

\* ---------------------------------------------------------------------- C6
BufferIsReset(buf) == buf.num_active_rows = 0 /\ buf.active = <<>>

\* C6: after a successful shuffle_write every buffer has no row and no
\* builder; flushing any buffer leaves it with no row and no builder; and
\* while the lock is not held a buffer has builders exactly when it has rows.
C6_FlushResetsBuffer ==
    /\ (last.op = "shuffle_write" /\ last.ok) =>
          \A p \in Partitions : BufferIsReset(buffered_partitions[p])
    /\ \A p \in Partitions :
          BufferIsReset(flush_to_rss(buffered_partitions[p], p, NoWrites(0)).buf)
    /\ lock = "none" =>
          \A p \in Partitions :
              (buffered_partitions[p].active # <<>>)
                  <=> (buffered_partitions[p].num_active_rows > 0)

\* shuffle_write has just flushed two non-empty buffers.
C6_Witness ==
    /\ last = Event("shuffle_write", TRUE, 2)
    /\ AllBuffersEmpty

\* ---------------------------------------------------------------------- C7
\* The steps that run the flush loop over all buffers, and what they write.
FinalizeStep == task_pc = "shuffle_write" /\ task_pc' # "shuffle_write"

SpillStep(c) == spill_pc[c] = "locked" /\ spill_pc'[c] = "idle"

FlushAllStep == FinalizeStep \/ \E c \in Contexts : SpillStep(c)

NewWrites == SubSeq(rss', Len(rss) + 1, Len(rss'))

NonEmptyBuffers == {p \in Partitions : buffered_partitions[p].num_active_rows > 0}

\* C7: flushing a buffer makes one sink write when the buffer has rows and
\* none when it is empty; every write of a shuffle_write or spill step is
\* keyed by the bucket id of a non-empty buffer and carries that buffer's
\* whole column, no buffer is written twice, and a step that returns Ok has
\* made exactly as many writes as there were non-empty buffers.
C7_OneWritePerNonEmptyFlush ==
    [][ /\ \A p \in Partitions :
              Len(flush_to_rss(buffered_partitions[p], p, NoWrites(0)).k.out)
                  = IF buffered_partitions[p].num_active_rows > 0 THEN 1 ELSE 0
        /\ FlushAllStep =>
              /\ \A j \in DOMAIN NewWrites :
                    /\ NewWrites[j].via = "flush_to_rss"
                    /\ NewWrites[j].partition_id \in NonEmptyBuffers
                    /\ NewWrites[j].batch
                          = buffered_partitions[NewWrites[j].partition_id].active[1]
                    /\ \A i \in 1..(j - 1) :
                          NewWrites[i].partition_id # NewWrites[j].partition_id
              /\ last'.ok => Len(NewWrites) = Cardinality(NonEmptyBuffers)
      ]_vars

\* shuffle_write over two buffers, one empty: one write.
C7_Witness ==
    /\ last = Event("shuffle_write", TRUE, 1)
    /\ num_output_partitions = 2

\* ---------------------------------------------------------------------- C8
C8_RunsBelowThreshold ==
    /\ Len(inserted) = 1
    /\ \A p \in Partitions :
          Len(RowsOfBucket(inserted[1], p)) < buffered_partitions[p].rss_batch_size

BufferedRows(p) == make_batch(buffered_partitions[p].active)

\* C8: when the buffers start empty and every per-bucket run of the batch is
\* shorter than the flush threshold, insert_batch makes no sink write and
\* leaves in each bucket's buffer exactly the rows with that bucket id; the
\* following shuffle_write makes exactly one sink write per non-empty bucket,
\* carrying all the rows of that bucket.
C8_BufferedThenOneWritePerBucket ==
    C8_RunsBelowThreshold =>
        /\ task_pc \in {"try_grow", "dispatch", "append", "idle"} => rss = <<>>
        /\ task_pc = "idle" =>
              \A p \in Partitions :
                  /\ SameRows(BufferedRows(p), RowsOfBucket(inserted[1], p))
                  /\ buffered_partitions[p].num_active_rows
                        = Len(RowsOfBucket(inserted[1], p))
        /\ task_pc = "done" =>
              /\ Len(rss) = Cardinality({p \in Partitions :
                                            RowsOfBucket(inserted[1], p) # <<>>})
              /\ \A i \in DOMAIN rss :
                    /\ rss[i].ok
                    /\ rss[i].via = "flush_to_rss"
                    /\ SameRows(rss[i].batch,
                                RowsOfBucket(inserted[1], rss[i].partition_id))
                    /\ \A j \in DOMAIN rss :
                          rss[j].partition_id = rss[i].partition_id => j = i

\* The example: 4 partitions, bucket ids 0,1,2,3,0,1,2,3, 4 writes of 2 rows.
C8_Witness ==
    /\ num_output_partitions = 4
    /\ inserted = << <<0, 1, 2, 3, 0, 1, 2, 3>> >>
    /\ task_pc = "done"
    /\ Len(rss) = 4
    /\ \A i \in DOMAIN rss : Len(rss[i].batch) = 2

\* ---------------------------------------------------------------------- C9
DispatchStep == task_pc = "append" /\ task_pc' # "append"

\* C9: a run at least as long as the buffer's flush threshold goes through
\* append_batch: one sink write keyed by the bucket, carrying exactly the
\* rows of the batch with that bucket id, the buffer untouched.  A shorter
\* run goes through append_rows: no append_batch write, and on success its
\* rows are in the buffer or in the flush the append made.
C9_BulkPathAtCutover ==
    [][ DispatchStep =>
          LET run == RowsOfBucket(input, cursor)
              buf == buffered_partitions[cursor]
          IN  IF Len(run) >= buf.rss_batch_size
              THEN /\ Len(NewWrites) = 1
                   /\ NewWrites[1].via = "append_batch"
                   /\ NewWrites[1].partition_id = cursor
                   /\ SameRows(NewWrites[1].batch, run)
                   /\ buffered_partitions' = buffered_partitions
              ELSE /\ \A j \in DOMAIN NewWrites :
                         /\ NewWrites[j].via = "flush_to_rss"
                         /\ NewWrites[j].partition_id = cursor
                   /\ last'.ok =>
                         SameRows(RowsOfWrites(NewWrites)
                                      \o make_batch(buffered_partitions'[cursor].active),
                                  make_batch(buf.active) \o run)
      ]_vars

\* A bulk write of two rows while rows of the same bucket stay buffered.
C9_Witness ==
    /\ last = Event("dispatch", TRUE, 1)
    /\ rss[Len(rss)].via = "append_batch"
    /\ Len(rss[Len(rss)].batch) >= 2
    /\ buffered_partitions[rss[Len(rss)].partition_id].num_active_rows > 0

\* --------------------------------------------------------------------- C10
\* C10: shuffle_write and spill flush in increasing bucket id order; a failed
\* sink write is the last write of the call, the call returns the failure
\* (which fails the task when the task made the call), and no buffer with a
\* larger bucket id is flushed or changed; a call that returns Ok had no
\* failed write.
C10_FailureAbortsFlushes ==
    [][ FlushAllStep =>
          /\ \A i, j \in DOMAIN NewWrites :
                i < j => NewWrites[i].partition_id < NewWrites[j].partition_id
          /\ \A j \in DOMAIN NewWrites :
                ~NewWrites[j].ok =>
                    /\ j = Len(NewWrites)
                    /\ ~last'.ok
                    /\ (FinalizeStep \/ SpillStep("task")) => task_pc' = "failed"
                    /\ \A p \in Partitions :
                          p > NewWrites[j].partition_id =>
                              buffered_partitions'[p] = buffered_partitions[p]
          /\ last'.ok <=> \A j \in DOMAIN NewWrites : NewWrites[j].ok
      ]_vars

\* shuffle_write failed on bucket 0 and bucket 1 still holds its rows.
C10_Witness ==
    /\ last = Event("shuffle_write", FALSE, 1)
    /\ task_pc = "failed"
    /\ rss[Len(rss)].partition_id = 0
    /\ ~rss[Len(rss)].ok
    /\ num_output_partitions = 2
    /\ buffered_partitions[1].num_active_rows > 0

\* --------------------------------------------------------------------- C11
\* C11: a requested partition count of zero is rejected at construction: no
\* repartitioner with zero partitions is registered with the memory manager,
\* and none accepts an insert_batch, a spill or a shuffle_write.
C11_ZeroPartitionsRejected ==
    num_output_partitions = 0 =>
        /\ last.op \in {"spill", "shuffle_write", "insert_begin"} => ~last.ok
        /\ last.op \in {"spill", "shuffle_write", "insert_begin"} => ~registered

\* --------------------------------------------------------------------- C12
\* The step in which try_grow returns its failure to insert_batch.
TryGrowFailedStep ==
    task_pc \in {"try_grow", "grown"} /\ last' = Event("try_grow", FALSE, 0)

\* C12: when try_grow fails, insert_batch returns the failure (the task is
\* failed) without touching a buffer or the sink, and the failed task never
\* dispatches afterwards: from then on the buffers and the sink change only
\* through a spill that the memory manager starts from outside.
C12_GrowFailureDispatchesNothing ==
    [][ /\ TryGrowFailedStep =>
              /\ task_pc' = "failed"
              /\ input' = <<>>
              /\ buffered_partitions' = buffered_partitions
              /\ rss' = rss
              /\ lock' = lock
        /\ task_pc = "failed" =>
              /\ task_pc' \in {"failed", "dropped"}
              /\ (buffered_partitions' # buffered_partitions \/ rss' # rss)
                    => SpillStep("arbiter")
      ]_vars

\* try_grow failed for the second batch while rows of the first are buffered.
C12_Witness ==
    /\ last = Event("try_grow", FALSE, 0)
    /\ task_pc = "failed"
    /\ Len(inserted) = 2
    /\ Len(inserted[2]) > 0
    /\ \E p \in Partitions : buffered_partitions[p].num_active_rows > 0
    /\ rss = <<>>

\* --------------------------------------------------------------------- C13
\* The points at which the task is done with the repartitioner: after a
\* successful shuffle_write, after a failed operation, or between operations.
ExitPoint == task_pc \in {"idle", "done", "failed"} /\ spill_pc["arbiter"] = "idle"

\* The steps of the task that do not need the lock to be held.
TaskStepOutsideLock ==
    \/ Drop
    \/ \E batch \in Batches : InsertBegin(batch)
    \/ TryGrowOk
    \/ DispatchLock
    \/ ShuffleWriteLock
    \/ SpillLock("task")

\* C13: the consumer is registered from construction until the drop and
\* never again.  While it is registered the execution has not ended: the
\* lock is held by an operation in progress, or the task has a step to take;
\* and at every exit point (successful shuffle_write, failed sink write,
\* failed try_grow, cancellation between operations) the drop is enabled.
\* After the drop nothing more happens, and drop_consumer has been given
\* exactly the accounted usage, once.
C13_DeregisteredOnEveryExit ==
    /\ registered <=> task_pc # "dropped"
    /\ registered => released = 0
    /\ (registered /\ lock = "none") => ENABLED TaskStepOutsideLock
    /\ lock # "none" => registered
    /\ ExitPoint => ENABLED Drop
    /\ ~registered =>
          /\ ~ENABLED Next
          /\ released = mem_used
          /\ lock = "none"

\* Dropped after a sink write failure with usage still accounted.
C13_Witness ==
    /\ task_pc = "dropped"
    /\ ~registered
    /\ released > 0
    /\ \E i \in DOMAIN rss : ~rss[i].ok

C15_SelfSpillSafe ==
    /\ task_pc \in {"try_grow", "grown"} => lock # "task"
    /\ spill_pc["task"] # "idle" <=> task_pc = "in_spill"
    /\ spill_pc["task"] = "wait" =>
          /\ lock # "task"
          /\ lock = "arbiter" => spill_pc["arbiter"] = "locked"
          /\ lock = "none" => ENABLED SpillLock("task")
    /\ spill_pc["task"] = "locked" => lock = "task"
    /\ task_pc = "grown" => ENABLED TryGrowOk

\* The spill run from inside the try_grow of the second insert has just
\* flushed the rows of the first and returned Ok.
C15_Witness ==
    /\ task_pc = "grown"
    /\ last.op = "spill"
    /\ last.ok
    /\ last.writes >= 1
    /\ Len(inserted) = 2
    /\ input = inserted[2]
    /\ lock = "none"
    /\ AllBuffersEmpty

\* --------------------------------------------------------------------- C16
\* A context is inside the locked region of one of its operations.
InLockedRegion(c) ==
    IF c = "task"
    THEN task_pc \in {"append", "shuffle_write"} \/ spill_pc["task"] = "locked"
    ELSE spill_pc["arbiter"] = "locked"

LockDiscipline ==
    /\ ~(InLockedRegion("task") /\ InLockedRegion("arbiter"))
    /\ \A c \in Contexts : InLockedRegion(c) <=> lock = c
    /\ task_pc = "append" => RowsOfBucket(input, cursor) # <<>>
    /\ task_pc \in {"try_grow", "in_spill", "grown", "dispatch"} =>
          ~(lock = "task" /\ spill_pc["task"] # "locked")

\* C16: at most one context is inside a locked region, and it is the one
\* that holds the lock; insert_batch holds the lock only for the append of
\* one non-empty run and not between two runs of a batch; every change of a
\* buffer, every sink write and every release of the lock is a step of the
\* context that holds the lock.
C16_MutualExclusion ==
    [][ /\ LockDiscipline
        /\ LockDiscipline'
        /\ (buffered_partitions' # buffered_partitions \/ rss' # rss) =>
              /\ lock # "none"
              /\ lock' = "none"
        /\ (lock # "none" /\ lock' # lock) => lock' = "none"
        /\ (task_pc = "dispatch" /\ task_pc' = "append") =>
              lock = "none" /\ lock' = "task"
        /\ DispatchStep => lock = "task" /\ lock' = "none"
      ]_vars

\* The memory manager's spill holds the lock between the dispatch of bucket
\* 0 and the dispatch of bucket 1 of one batch.
C16_Witness ==
    /\ spill_pc["arbiter"] = "locked"
    /\ lock = "arbiter"
    /\ task_pc = "dispatch"
    /\ cursor = 1
    /\ buffered_partitions[0].num_active_rows > 0

\* --------------------------------------------------------------------- C17
\* The rows handed to the sink under key p, in every write attempt.
WrittenRows(p) ==
    LET KeyedP(w) == w.partition_id = p IN RowsOfWrites(SelectSeq(rss, KeyedP))

\* The insert in progress has not returned yet.
InsertInProgress ==
    task_pc \in {"try_grow", "in_spill", "grown", "dispatch", "append"}

\* The rows with bucket id p of the runs dispatched so far: all the runs of
\* the batches whose insert_batch has returned, and the runs before the
\* cursor of the batch that is being dispatched.
RECURSIVE RowsOfBatches(_, _, _)
RowsOfBatches(bs, m, p) ==
    IF m = 0 THEN <<>> ELSE RowsOfBatches(bs, m - 1, p) \o RowsOfBucket(bs[m], p)

DispatchedRows(p) ==
    IF InsertInProgress
    THEN RowsOfBatches(inserted, Len(inserted) - 1, p)
             \o (IF task_pc \in {"dispatch", "append"} /\ p < cursor
                 THEN RowsOfBucket(input, p) ELSE <<>>)
    ELSE RowsOfBatches(inserted, Len(inserted), p)

\* C17: the grouping of the batch being dispatched is a permutation of its
\* row positions in which the run of bucket p holds exactly the positions
\* whose bucket id is p; every row written under key p or held in buffer p
\* has bucket id p; and while no operation of the task has failed, for each
\* bucket p the rows handed to the sink under key p together with the rows
\* in buffer p are the rows dispatched to p so far.
C17_RoutingExact ==
    /\ task_pc \in {"dispatch", "append"} =>
          LET g == Grouping(input, num_output_partitions)
              Positions == 0..(Len(input) - 1)
          IN  /\ {g.shuffled[j] : j \in Positions} = Positions
              /\ g.starts[0] = 0
              /\ \A p \in Partitions :
                    /\ g.starts[p] <= g.starts[p + 1]
                    /\ {g.shuffled[j] : j \in g.starts[p]..(g.starts[p + 1] - 1)}
                          = {i \in Positions : input[i + 1] % num_output_partitions = p}
    /\ \A i \in DOMAIN rss :
          \A k \in DOMAIN rss[i].batch :
              rss[i].batch[k] % num_output_partitions = rss[i].partition_id
    /\ \A p \in Partitions :
          /\ \A k \in DOMAIN BufferedRows(p) :
                BufferedRows(p)[k] % num_output_partitions = p
          /\ task_pc \notin {"failed", "dropped"} =>
                SameRows(WrittenRows(p) \o BufferedRows(p), DispatchedRows(p))

\* A spill between the two dispatches of the batch flushed bucket 0; the row
\* of bucket 1 was buffered after it.
C17_Witness ==
    /\ num_output_partitions = 2
    /\ task_pc = "idle"
    /\ last = Event("dispatch", TRUE, 0)
    /\ Len(inserted) = 1
    /\ Len(rss) = 1
    /\ rss[1].partition_id = 0
    /\ rss[1].via = "flush_to_rss"
    /\ buffered_partitions[0].num_active_rows = 0
    /\ buffered_partitions[1].num_active_rows = 1

\* --------------------------------------------------------------------- C18
\* A dispatch step that went through append_batch.
BulkStep == DispatchStep /\ \E j \in DOMAIN NewWrites : NewWrites[j].via = "append_batch"

\* C18: append_batch makes one sink write carrying the batch it is given
\* and returns the buffer as it was; a dispatch step through it writes the
\* run once and changes no buffer, so the rows buffered for that bucket are
\* still buffered after it; and the sink only grows at its end, so those
\* rows are written after the run.
C18_BulkPathLeavesBuffer ==
    [][ /\ \A p \in Partitions :
              \A batch \in Batches :
                  LET r == append_batch(buffered_partitions[p], batch, p, NoWrites(0))
                  IN  /\ r.buf = buffered_partitions[p]
                      /\ r.k.out = << [partition_id |-> p, batch |-> batch,
                                       ok |-> TRUE, via |-> "append_batch"] >>
        /\ BulkStep =>
              /\ Len(NewWrites) = 1
              /\ NewWrites[1].partition_id = cursor
              /\ NewWrites[1].batch
                    = arrow_take(input,
                                 RunIndices(Grouping(input, num_output_partitions),
                                            cursor))
              /\ buffered_partitions' = buffered_partitions
        /\ Len(rss') >= Len(rss)
        /\ SubSeq(rss', 1, Len(rss)) = rss
      ]_vars

\* The row of the first insert was buffered, the two rows of the second
\* went through append_batch, and shuffle_write wrote the first row last.
C18_Witness ==
    /\ Len(inserted) = 2
    /\ Len(inserted[1]) = 1
    /\ Len(inserted[2]) = 2
    /\ Len(rss) = 2
    /\ rss[1].via = "append_batch"
    /\ rss[1].batch = inserted[2]
    /\ rss[2].via = "flush_to_rss"
    /\ rss[2].batch = inserted[1]
    /\ rss[2].partition_id = rss[1].partition_id
    /\ task_pc = "done"

\* --------------------------------------------------------------------- C19
\* The step that enters insert_batch.
InsertBeginStep == task_pc = "idle" /\ task_pc' = "try_grow"

\* C19: a step changes mem_used only when it enters insert_batch, adding
\* the size of the batch before any row is dispatched, or when it is a spill
\* that returns Ok, setting it to 0; a dispatch step (threshold flush or
\* bulk write), a shuffle_write and a failed spill leave it as it was, and a
\* step that is not a spill never lowers it.
C19_UsageChangedByInsertAndSpill ==
    [][ /\ mem_used' # mem_used =>
              \/ /\ InsertBeginStep
                 /\ mem_used' = mem_used + get_array_memory_size(input')
                 /\ rss' = rss
                 /\ buffered_partitions' = buffered_partitions
              \/ /\ \E c \in Contexts : SpillStep(c)
                 /\ last'.ok
                 /\ mem_used' = 0
        /\ InsertBeginStep => mem_used' = mem_used + get_array_memory_size(input')
        /\ (DispatchStep \/ FinalizeStep) => mem_used' = mem_used
        /\ ((\E c \in Contexts : SpillStep(c)) /\ ~last'.ok) => mem_used' = mem_used
        /\ (~ \E c \in Contexts : SpillStep(c)) => mem_used' >= mem_used
      ]_vars

\* shuffle_write has flushed both buffers and the usage of the two inserts
\* is still accounted.
C19_Witness ==
    /\ last = Event("shuffle_write", TRUE, 2)
    /\ Len(inserted) = 2
    /\ mem_used = get_array_memory_size(inserted[1])
                      + get_array_memory_size(inserted[2])
    /\ \E i \in DOMAIN rss : rss[i].via = "append_batch"

\* --------------------------------------------------------------------- C20
\* C20: when a spill or a shuffle_write returns a failure, the last sink
\* write of the step is the failed one, for a bucket i whose buffer had
\* rows; that write was carrying all the rows of buffer i, and buffer i is
\* empty afterwards, so its rows are neither buffered nor delivered; every
\* buffer j < i is empty and, if it had rows, they went out in a successful
\* write of the step; every buffer j > i is as it was; and mem_used is as it
\* was before the step.
C20_StateAfterFailedFlush ==
    [][ (FlushAllStep /\ ~last'.ok) =>
          /\ NewWrites # <<>>
          /\ LET failed == NewWrites[Len(NewWrites)]
                 i == failed.partition_id
             IN  /\ ~failed.ok
                 /\ buffered_partitions[i].num_active_rows > 0
                 /\ failed.batch = make_batch(buffered_partitions[i].active)
                 /\ BufferIsReset(buffered_partitions'[i])
                 /\ \A j \in Partitions :
                       /\ j < i =>
                             /\ BufferIsReset(buffered_partitions'[j])
                             /\ buffered_partitions[j].num_active_rows > 0 =>
                                   \E w \in DOMAIN NewWrites :
                                       /\ NewWrites[w].ok
                                       /\ NewWrites[w].partition_id = j
                                       /\ NewWrites[w].batch
                                             = make_batch(buffered_partitions[j].active)
                       /\ j > i => buffered_partitions'[j] = buffered_partitions[j]
          /\ mem_used' = mem_used
      ]_vars

\* A spill delivered bucket 0 and failed on bucket 1: both buffers are
\* empty and the usage is still accounted.
C20_Witness ==
    /\ last = Event("spill", FALSE, 2)
    /\ rss[Len(rss) - 1].ok
    /\ rss[Len(rss) - 1].partition_id = 0
    /\ ~rss[Len(rss)].ok
    /\ rss[Len(rss)].partition_id = 1
    /\ AllBuffersEmpty
    /\ mem_used > 0

=============================================================================
